---- MODULE Spec2Model ----
(***************************************************************************)
(* A model of VirtualMemory<T> (src/virtualmemory.h): a fixed-capacity     *)
(* array whose storage is a reserved virtual address range.  Both build    *)
(* configurations of the header are modelled: WINDOWS (pages are reserved  *)
(* with no access and committed from a structured-exception filter) and    *)
(* the mmap build (the range is mapped read/write at once).                *)
(*                                                                         *)
(* Addresses are byte addresses; the reservation is seen as pages of       *)
(* PageSize bytes numbered from its base.  One object is modelled from     *)
(* before its constructor runs until its destructor has run or the process *)
(* has been stopped by a failed rmsAssert, std::terminate or a signal.     *)
(***************************************************************************)
EXTENDS Integers, Sequences, FiniteSets

\* ---------------------------------------------------------------- bounds
\* The largest capacity handed to the constructor.
MaxCapacity == 3
\* The counters of resets and of commit-and-resume cycles saturate here.
MaxResets == 2
MaxResumes == 2
\* The elements counted before the wrapped-capacity runs stop appending.
MaxAppends == 4

\* ------------------------------------------------------ platform constants
\* Bytes in one OS page (scaled down from 4096).
PageSize == 4
\* The null pointer / the 0 that VirtualAlloc returns on failure.
NullAddr == 0
\* size_t arithmetic is modulo SizeMod (a scaled-down word).
SizeMod == 256

\* sizeof(T) of the element types instantiated; 3 makes slots straddle pages.
SizeOfTs == {2, 3}
\* Page-aligned addresses the OS may hand out for a new reservation.
BaseAddrs == {16, 64}
\* Element values (constructor arguments); NoValue is memory holding no T.
Values == {1, 2}
NoValue == 0

\* What T's constructor does, step by step: "store" writes the object into
\* its slot, "wild" dereferences an address outside every reservation (the
\* null pointer), "throw" leaves the constructor by a C++ exception.
CtorPlans ==
  { <<"store">>, <<"throw">>, <<"wild", "store">>, <<"store", "wild">> }

VARIABLES
  platform,    \* "WINDOWS" or "POSIX": which #ifdef branch is compiled
  sizeofT,     \* sizeof(T)
  phase,       \* "unconstructed", "live", "destroyed", "aborted"
  pc,          \* position inside emplace_back: "idle", "construct", "filter"
  memory_,     \* T* memory_
  capacity_,   \* size_t capacity_
  count_,      \* size_t count_
  resBase,     \* OS: base address of the reserved range (NullAddr: none)
  resPages,    \* OS: pages in the reserved range
  access,      \* OS: pages of the range that are readable and writable
  backed,      \* OS: pages of the range that have physical backing
  mem,         \* contents of the slots: a value, or NoValue
  nReserve,    \* OS calls so far that reserve a fresh range
  nRelease,    \* OS calls so far that release a range
  oscalls,     \* the OS calls made by the latest step, in order
  target,      \* emplace_back: &dest
  value,       \* emplace_back: the constructor argument
  plan,        \* emplace_back: what is left of T's constructor
  dwCode,      \* the exception code handed to the filter
  faultAddr,   \* the address whose access raised the latest fault
  resumes,     \* EXCEPTION_CONTINUE_EXECUTION results in this emplace_back
  ret,         \* the latest operation and its outcome
  args,        \* values passed to emplace_back since construction/Reset
  resets,      \* completed Resets (saturating)
  dtorCalls    \* calls of T's destructor made by the container

vars ==
  << platform, sizeofT, phase, pc, memory_, capacity_, count_, resBase,
     resPages, access, backed, mem, nReserve, nRelease, oscalls, target,
     value, plan, dwCode, faultAddr, resumes, ret, args, resets,
     dtorCalls >>

objVars == << memory_, capacity_, count_ >>
osVars == << resBase, resPages, access, backed, nReserve, nRelease >>
callVars == << target, value, plan, dwCode, faultAddr, resumes >>
buildVars == << platform, sizeofT >>

\* ---------------------------------------------------------------- helpers
\* Pages needed to hold `length` bytes (the OS rounds a range up to pages).
PagesFor(length) == (length + PageSize - 1) \div PageSize

\* Pages, counted from the base, that hold a byte of [off, off + n).
PagesCovering(off, n) ==
  IF n <= 0 THEN {} ELSE (off \div PageSize) .. ((off + n - 1) \div PageSize)

\* &memory_[index]
ElementAddress(index) == memory_ + index * sizeofT

\* The slot an element address denotes.
SlotOf(addr) == (addr - memory_) \div sizeofT

\* The pages of the reservation under the sizeof(T) bytes at `addr`.
SlotPages(addr) == PagesCovering(addr - resBase, sizeofT)

\* Whether `addr` lies in the range the OS has reserved.
InReservation(addr) ==
  /\ resPages > 0
  /\ addr >= resBase
  /\ addr < resBase + resPages * PageSize

\* What a read through &memory_[index] yields.
Load(index) == IF index \in DOMAIN mem THEN mem[index] ELSE NoValue

\* Contents after the pages in `gone` lost their backing.
Discard(gone) ==
  [ i \in DOMAIN mem |->
      IF PagesCovering(i * sizeofT, sizeofT) \cap gone # {}
        THEN NoValue ELSE mem[i] ]

AllPages == 0 .. (resPages - 1)

Outcome(op, out, index, addr, val) ==
  [ op |-> op, out |-> out, index |-> index, addr |-> addr, val |-> val ]

OsCall(fn, addr, len) == [ fn |-> fn, addr |-> addr, len |-> len ]

\* A failed rmsAssert, std::terminate or a fatal signal: the process stops.
Fatal(op, out) ==
  /\ phase' = "aborted"
  /\ ret' = Outcome(op, out, 0, NullAddr, NoValue)

\* ------------------------------------------------------------------- Init
Init ==
  /\ platform \in {"WINDOWS", "POSIX"}
  /\ sizeofT \in SizeOfTs
  /\ phase = "unconstructed"
  /\ pc = "idle"
  /\ memory_ = NullAddr
  /\ capacity_ = 0
  /\ count_ = 0
  /\ resBase = NullAddr
  /\ resPages = 0
  /\ access = {}
  /\ backed = {}
  /\ mem = << >>
  /\ nReserve = 0
  /\ nRelease = 0
  /\ oscalls = << >>
  /\ target = NullAddr
  /\ value = NoValue
  /\ plan = << >>
  /\ dwCode = "none"
  /\ faultAddr = NullAddr
  /\ resumes = 0
  /\ ret = Outcome("none", "none", 0, NullAddr, NoValue)
  /\ args = << >>
  /\ resets = 0
  /\ dtorCalls = 0

\* ------------------------------------------------------------ constructor
\* size_t length = sizeof(T) * capacity_;
ByteLength(capacity) == (sizeofT * capacity) % SizeMod

\* VirtualMemory(size_t capacity)
Constructor(capacity) ==
  /\ phase = "unconstructed"
  /\ capacity_' = capacity
  /\ count_' = 0
  /\ UNCHANGED << buildVars, dtorCalls, pc, callVars, args, resets, nRelease,
                  backed >>
  /\ IF capacity = 0
       THEN /\ memory_' = NullAddr
            /\ phase' = "live"
            /\ mem' = << >>
            /\ oscalls' = << >>
            /\ ret' = Outcome("ctor", "returned", capacity, NullAddr,
                              NoValue)
            /\ UNCHANGED << resBase, resPages, access, nReserve >>
       ELSE LET length == ByteLength(capacity) IN
            \E memory \in BaseAddrs \cup {NullAddr} :
              IF memory = NullAddr
                THEN \* VirtualAlloc returned 0 / mmap returned MAP_FAILED
                     /\ Fatal("ctor", "reserve_failed")
                     /\ oscalls' = << OsCall("reserve", NullAddr, length) >>
                     /\ UNCHANGED << memory_, resBase, resPages, access, mem,
                                     nReserve >>
                ELSE /\ memory_' = memory
                     /\ resBase' = memory
                     /\ resPages' = PagesFor(length)
                     /\ nReserve' = nReserve + 1
                     /\ access' = IF platform = "WINDOWS" THEN {}
                                  ELSE 0 .. (PagesFor(length) - 1)
                     /\ mem' = [ i \in 0 .. (capacity - 1) |-> NoValue ]
                     /\ oscalls' =
                          IF platform = "WINDOWS"
                            THEN << OsCall("reserve", NullAddr, length) >>
                            ELSE << OsCall("reserve", NullAddr, length),
                                    OsCall("msync", memory, length) >>
                     /\ phase' = "live"
                     /\ ret' = Outcome("ctor", "returned", capacity, memory,
                                       NoValue)

\* ------------------------------------------------------------- destructor
\* Reset and the destructor as they would be if they destroyed the
\* elements in [0, count_) first.
ElementDestructors_Called == dtorCalls' = dtorCalls + count_

\* Neither Reset nor ~VirtualMemory calls ~T() on an element.
ElementDestructors == dtorCalls' = dtorCalls

\* The test without which capacity 0 would reach the OS.
HasMemory_Always == TRUE

\* if (memory_)
HasMemory == memory_ # NullAddr

\* The OS calls of a successful destruction: VirtualFree(memory_, 0,
\* MEM_RELEASE) releases the whole region; munmap(memory_, length) unmaps
\* the pages holding [memory_, memory_ + length).
ReleaseCalls ==
  IF platform = "WINDOWS"
    THEN << OsCall("release", memory_, 0) >>
    ELSE << OsCall("msync", memory_, ByteLength(capacity_)),
            OsCall("release", memory_, ByteLength(capacity_)) >>

\* ~VirtualMemory()
Destructor ==
  /\ phase = "live"
  /\ pc = "idle"
  /\ ElementDestructors
  /\ UNCHANGED << buildVars, pc, objVars, callVars, args, resets, nReserve >>
  /\ IF HasMemory
       THEN \E ok \in BOOLEAN :
              /\ oscalls' = ReleaseCalls
              /\ IF ok
                   THEN /\ resBase' = NullAddr
                        /\ resPages' = 0
                        /\ access' = {}
                        /\ backed' = {}
                        /\ mem' = Discard(AllPages)
                        /\ nRelease' = nRelease + 1
                        /\ phase' = "destroyed"
                        /\ ret' = Outcome("dtor", "returned", 0, NullAddr, NoValue)
                   ELSE /\ Fatal("dtor", "release_failed")
                        /\ UNCHANGED << resBase, resPages, access, backed, mem,
                                        nRelease >>
       ELSE /\ oscalls' = << >>
            /\ phase' = "destroyed"
            /\ ret' = Outcome("dtor", "returned", 0, NullAddr, NoValue)
            /\ UNCHANGED << resBase, resPages, access, backed, mem, nRelease >>

\* Reset's OS calls as they would be if they named the used prefix only.
InvalidateCalls_PrefixOnly ==
  IF platform = "WINDOWS"
    THEN << OsCall("decommit", memory_, ByteLength(count_)) >>
    ELSE << OsCall("msync", memory_, ByteLength(count_)),
            OsCall("remap_fixed", memory_, ByteLength(count_)) >>

\* ------------------------------------------------------------------ Reset
\* The OS calls of Reset: VirtualFree(memory_, 0, MEM_DECOMMIT) decommits
\* the whole region; mmap(memory_, length, ..., MAP_FIXED ...) replaces the
\* mapping of the range by a fresh anonymous one at the same address.
InvalidateCalls ==
  IF platform = "WINDOWS"
    THEN << OsCall("decommit", memory_, 0) >>
    ELSE << OsCall("msync", memory_, ByteLength(capacity_)),
            OsCall("remap_fixed", memory_, ByteLength(capacity_)) >>

\* Reset as it would be if it remapped with PROT_NONE.
InvalidateRange_NoAccess ==
  /\ access' = {}
  /\ backed' = {}
  /\ mem' = Discard(AllPages)
  /\ UNCHANGED << resBase, resPages, nReserve, nRelease >>

\* Reset as it would be with MEM_RELEASE / munmap in place of the decommit.
InvalidateRange_Releases ==
  /\ access' = {}
  /\ backed' = {}
  /\ mem' = Discard(AllPages)
  /\ resBase' = NullAddr
  /\ resPages' = 0
  /\ nRelease' = nRelease + 1
  /\ UNCHANGED nReserve

\* Reset's effect on the OS once its call has succeeded.
InvalidateRange ==
  /\ access' = IF platform = "WINDOWS" THEN {} ELSE AllPages
  /\ backed' = {}
  /\ mem' = Discard(AllPages)
  /\ UNCHANGED << resBase, resPages, nReserve, nRelease >>

\* Reset as it would be if it mapped afresh and stored the new address.
ResetFrame_Rebased ==
  /\ memory_' \in BaseAddrs \ {memory_}
  /\ capacity_' = capacity_

\* Reset assigns neither memory_ nor capacity_.
ResetFrame == UNCHANGED << memory_, capacity_ >>

\* Reset as it would be without its last statement.
ResetCount_Kept ==
  /\ count_' = count_
  /\ args' = args

\* count_ = 0;
ResetCount ==
  /\ count_' = 0
  /\ args' = << >>

\* void Reset()
Reset ==
  /\ phase = "live"
  /\ pc = "idle"
  /\ ElementDestructors
  /\ UNCHANGED << buildVars, pc, callVars >>
  /\ IF HasMemory
       THEN \E ok \in BOOLEAN :
              /\ oscalls' = InvalidateCalls
              /\ IF ok
                   THEN /\ InvalidateRange
                        /\ ResetFrame
                        /\ ResetCount
                        /\ resets' = IF resets < MaxResets THEN resets + 1 ELSE resets
                        /\ phase' = "live"
                        /\ ret' = Outcome("Reset", "returned", 0, NullAddr, NoValue)
                   ELSE /\ Fatal("Reset", "invalidate_failed")
                        /\ UNCHANGED << objVars, osVars, mem, args, resets >>
       ELSE /\ oscalls' = << >>
            /\ ResetFrame
            /\ ResetCount
            /\ resets' = IF resets < MaxResets THEN resets + 1 ELSE resets
            /\ phase' = "live"
            /\ ret' = Outcome("Reset", "returned", 0, NullAddr, NoValue)
            /\ UNCHANGED << osVars, mem >>

\* ---------------------------------------------------------- indexed access
\* The bounds check off by one.
IndexCheck_OffByOne(index) == index <= count_

\* rmsAssert(index < count_);
IndexCheck(index) == index < count_

\* Both overloads: rmsAssert(index < count_); return memory_[index];
IndexedAccess(op, index) ==
  /\ phase = "live"
  /\ pc = "idle"
  /\ oscalls' = << >>
  /\ UNCHANGED << buildVars, dtorCalls, pc, objVars, osVars, mem, callVars,
                  args, resets >>
  /\ IF IndexCheck(index)
       THEN /\ phase' = "live"
            /\ ret' = Outcome(op, "returned", index, ElementAddress(index),
                              Load(index))
       ELSE /\ phase' = "aborted"
            /\ ret' = Outcome(op, "out_of_bounds", index, NullAddr, NoValue)

\* operator[] as it would be if an access at index size() appended a slot.
Subscript_Extends(index) ==
  /\ phase = "live"
  /\ pc = "idle"
  /\ oscalls' = << >>
  /\ UNCHANGED << buildVars, dtorCalls, pc, memory_, capacity_, osVars, mem,
                  callVars, args, resets >>
  /\ IF index <= count_ /\ index < capacity_
       THEN /\ phase' = "live"
            /\ count_' = IF index = count_ THEN count_ + 1 ELSE count_
            /\ ret' = Outcome("operator[]", "returned", index,
                              ElementAddress(index), Load(index))
       ELSE /\ phase' = "aborted"
            /\ count_' = count_
            /\ ret' = Outcome("operator[]", "out_of_bounds", index, NullAddr,
                              NoValue)

\* T& operator[](size_t index)
Subscript(index) == IndexedAccess("operator[]", index)

\* const T& operator[](size_t index) const
SubscriptConst(index) == IndexedAccess("operator[] const", index)

\* capacity() as it would be if it returned the other counter.
Capacity_ReturnsCount ==
  /\ phase = "live"
  /\ pc = "idle"
  /\ oscalls' = << >>
  /\ ret' = Outcome("capacity", "returned", 0, NullAddr, count_)
  /\ UNCHANGED << buildVars, dtorCalls, phase, pc, objVars, osVars, mem,
                  callVars, args, resets >>

\* size_t capacity() const
Capacity ==
  /\ phase = "live"
  /\ pc = "idle"
  /\ oscalls' = << >>
  /\ ret' = Outcome("capacity", "returned", 0, NullAddr, capacity_)
  /\ UNCHANGED << buildVars, dtorCalls, phase, pc, objVars, osVars, mem, callVars, args,
                  resets >>

\* size_t size() const
Size ==
  /\ phase = "live"
  /\ pc = "idle"
  /\ oscalls' = << >>
  /\ ret' = Outcome("size", "returned", 0, NullAddr, count_)
  /\ UNCHANGED << buildVars, dtorCalls, phase, pc, objVars, osVars, mem, callVars, args,
                  resets >>

\* ------------------------------------------------------------ emplace_back
\* The capacity check off by one.
CapacityCheck_OffByOne == count_ <= capacity_

\* rmsAssert(count_ < capacity_);
CapacityCheck == count_ < capacity_

\* The slot taken without the post-increment.
TakeSlot_NoAdvance ==
  /\ target' = ElementAddress(count_)
  /\ count_' = count_

\* The slot taken with a pre-increment: memory_[++count_].
TakeSlot_PreIncrement ==
  /\ target' = ElementAddress(count_ + 1)
  /\ count_' = count_ + 1

\* T& dest = memory_[count_++];
TakeSlot ==
  /\ target' = ElementAddress(count_)
  /\ count_' = count_ + 1

\* emplace_back(args...): the assertion and the choice of the slot.
EmplaceBack(v, p) ==
  /\ phase = "live"
  /\ pc = "idle"
  /\ oscalls' = << >>
  /\ UNCHANGED << buildVars, dtorCalls, memory_, capacity_, osVars, mem, resets >>
  /\ IF CapacityCheck
       THEN /\ TakeSlot
            /\ value' = v
            /\ plan' = p
            /\ dwCode' = "none"
            /\ faultAddr' = NullAddr
            /\ resumes' = 0
            /\ args' = Append(args, v)
            /\ pc' = "construct"
            /\ phase' = "live"
            /\ ret' = Outcome("emplace_back", "pending", count_, NullAddr, NoValue)
       ELSE /\ phase' = "aborted"
            /\ ret' = Outcome("emplace_back", "capacity_exceeded", count_,
                              NullAddr, NoValue)
            /\ UNCHANGED << count_, callVars, args, pc >>

\* An access to `addr` that the hardware refuses.  Under WINDOWS the __try
\* block hands it to the filter; otherwise the signal ends the process.
RaiseFault(addr) ==
  /\ faultAddr' = addr
  /\ IF platform = "WINDOWS"
       THEN /\ pc' = "filter"
            /\ dwCode' = "EXCEPTION_ACCESS_VIOLATION"
            /\ phase' = "live"
            /\ UNCHANGED ret
       ELSE /\ phase' = "aborted"
            /\ ret' = Outcome("emplace_back", "signal", SlotOf(target), NullAddr,
                              NoValue)
            /\ UNCHANGED << pc, dwCode >>

\* The first byte of the slot at `addr` that lies on a page without access.
FirstFaultingByte(addr) ==
  CHOOSE a \in addr .. (addr + sizeofT - 1) :
    /\ ~ (InReservation(a) /\ ((a - resBase) \div PageSize) \in access)
    /\ \A b \in addr .. (a - 1) :
         InReservation(b) /\ ((b - resBase) \div PageSize) \in access

\* Whether all sizeof(T) bytes at `addr` can be written.
Writable(addr) ==
  \A a \in addr .. (addr + sizeofT - 1) :
    InReservation(a) /\ ((a - resBase) \div PageSize) \in access

\* new (&dest) T(std::forward<Args>(args)...): the next step of T's
\* constructor, and the return of emplace_back once it has finished.
Construct ==
  /\ phase = "live"
  /\ pc = "construct"
  /\ oscalls' = << >>
  /\ UNCHANGED << buildVars, dtorCalls, objVars, resBase, resPages, access, nReserve,
                  nRelease, target, value, resumes, args, resets >>
  /\ IF plan = << >>
       THEN \* return dest;
            /\ pc' = "idle"
            /\ phase' = "live"
            /\ ret' = Outcome("emplace_back", "returned", SlotOf(target), target,
                              Load(SlotOf(target)))
            /\ UNCHANGED << plan, dwCode, faultAddr, backed, mem >>
       ELSE IF Head(plan) = "store"
       THEN IF Writable(target)
              THEN /\ mem' = [ mem EXCEPT ![SlotOf(target)] = value ]
                   /\ backed' = backed \cup SlotPages(target)
                   /\ plan' = Tail(plan)
                   /\ UNCHANGED << pc, phase, ret, dwCode, faultAddr >>
              ELSE /\ RaiseFault(FirstFaultingByte(target))
                   /\ UNCHANGED << plan, backed, mem >>
       ELSE IF Head(plan) = "wild"
       THEN /\ RaiseFault(NullAddr)
            /\ UNCHANGED << plan, backed, mem >>
       ELSE \* "throw": a C++ exception leaves the constructor
            /\ UNCHANGED << plan, backed, mem, faultAddr >>
            /\ IF platform = "WINDOWS"
                 THEN /\ pc' = "filter"
                      /\ dwCode' = "CPP_EXCEPTION"
                      /\ phase' = "live"
                      /\ UNCHANGED ret
                 ELSE /\ pc' = "idle"
                      /\ phase' = "live"
                      /\ ret' = Outcome("emplace_back", "threw", SlotOf(target),
                                        NullAddr, NoValue)
                      /\ UNCHANGED dwCode

\* The pages VirtualAlloc(target, sizeof(T), MEM_COMMIT, PAGE_READWRITE)
\* commits: all pages holding a byte of [target, target + sizeof(T)).
CommitPages == SlotPages(target)

\* The commit as it would be if it handed out fresh pages for the whole
\* range it names, dropping what its committed pages held.
CommitRange_Fresh ==
  /\ access' = access \cup CommitPages
  /\ mem' = Discard(CommitPages)

\* The commit as it would be if it covered the whole reservation.
CommitRange_Everything ==
  /\ access' = AllPages
  /\ mem' = mem

\* A successful MEM_COMMIT: the pages become readable and writable; pages
\* that were committed already keep their contents.
CommitRange ==
  /\ access' = access \cup CommitPages
  /\ mem' = mem

\* The commit can succeed only inside a reserved region.
CommitPossible ==
  \A a \in target .. (target + sizeofT - 1) : InReservation(a)

\* PageFaultExceptionFilter(dwCode, target) and what its result leads to:
\* EXCEPTION_CONTINUE_EXECUTION re-executes the faulting access,
\* EXCEPTION_EXECUTE_HANDLER runs rmsAssert(false) and std::terminate().
PageFaultExceptionFilter ==
  /\ phase = "live"
  /\ pc = "filter"
  /\ UNCHANGED << buildVars, dtorCalls, objVars, resBase, resPages, backed,
                  nReserve, nRelease, target, value, plan, dwCode, faultAddr,
                  args, resets >>
  /\ IF dwCode = "EXCEPTION_ACCESS_VIOLATION"
       THEN \E result \in IF CommitPossible THEN BOOLEAN ELSE {FALSE} :
              /\ oscalls' = << OsCall("commit", target, sizeofT) >>
              /\ IF result
                   THEN /\ CommitRange
                        /\ resumes' = IF resumes < MaxResumes THEN resumes + 1
                                     ELSE resumes
                        /\ pc' = "construct"
                        /\ UNCHANGED << phase, ret >>
                   ELSE /\ Fatal("emplace_back", "commit_failed")
                        /\ UNCHANGED << access, mem, resumes, pc >>
       ELSE /\ oscalls' = << >>
            /\ Fatal("emplace_back", "unhandled_exception")
            /\ UNCHANGED << access, mem, resumes, pc >>

\* ------------------------------------------------------------------- Next
\* What a caller can do with a constructed object besides appending, and
\* the steps inside emplace_back.
Operations ==
  \/ Destructor
  \/ Reset
  \/ \E index \in 0 .. MaxCapacity : Subscript(index)
  \/ \E index \in 0 .. MaxCapacity : SubscriptConst(index)
  \/ Capacity
  \/ Size
  \/ Construct
  \/ PageFaultExceptionFilter

Next ==
  \/ \E capacity \in 0 .. MaxCapacity : Constructor(capacity)
  \/ \E v \in Values, p \in CtorPlans : EmplaceBack(v, p)
  \/ Operations

Spec == Init /\ [][Next]_vars

\* The smallest capacity whose byte length sizeof(T) * capacity does not
\* fit size_t.
OverflowCapacity == (SizeMod \div sizeofT) + 1

\* The same object constructed with a capacity whose byte length wraps.
\* The address space around the reservation is unmapped here, so an access
\* past the reserved pages faults.  emplace_back is called while fewer than
\* MaxAppends elements are counted.
NextOverflow ==
  \/ Constructor(OverflowCapacity)
  \/ (count_ < MaxAppends /\ \E v \in Values, p \in CtorPlans : EmplaceBack(v, p))
  \/ Operations

SpecOverflow == Init /\ [][NextOverflow]_vars

\* ================================================================== claims
Subscripts == {"operator[]", "operator[] const"}

\* A step that calls emplace_back (from a state between operations).
EmplaceBackCalled ==
  /\ phase = "live"
  /\ pc = "idle"
  /\ ret'.op = "emplace_back"

\* A step that is a Reset which returns.
ResetReturned ==
  /\ phase = "live"
  /\ pc = "idle"
  /\ ret'.op = "Reset"
  /\ ret'.out = "returned"

\* C1: size() is 0 right after construction and always within
\* 0..capacity(); a call of emplace_back that passes its check advances
\* size() by exactly 1 and nothing changes it until that call has returned;
\* indexed access, size() and capacity() leave it alone; Reset makes it 0.
C1_SizeContract ==
  /\ count_ = 0
  /\ [][ /\ count_' >= 0
         /\ count_' <= capacity_'
         /\ (phase = "unconstructed" /\ phase' = "live") => count_' = 0
         /\ (pc = "idle" /\ pc' = "construct") => count_' = count_ + 1
         /\ (pc # "idle") => count_' = count_
         /\ (pc' = "idle" /\ ret'.op = "emplace_back"
               /\ ret'.out = "returned")
              => count_' = ret'.index + 1
         /\ (phase = "live" /\ ret'.op \in Subscripts \cup {"size", "capacity"})
              => count_' = count_
         /\ ResetReturned => count_' = 0
       ]_vars

\* C1 witness: after a Reset, a second emplace_back has returned.
C1_Witness ==
  /\ ret.op = "emplace_back"
  /\ ret.out = "returned"
  /\ count_ = 2
  /\ resets >= 1

\* C2: operator[](i) with i < size() yields the value passed to the i-th
\* emplace_back since construction or the last Reset.
C2_ValueRoundTrip ==
  (ret.op \in Subscripts /\ ret.out = "returned")
    => /\ ret.index + 1 <= Len(args)
       /\ ret.val = args[ret.index + 1]

\* C3: emplace_back called with size() = capacity() stops the process: it
\* returns nothing, constructs nothing, and leaves the count, the capacity,
\* the base address and the reservation as they were; nothing runs after.
C3_CapacityExceededIsFatal ==
  [][ /\ (EmplaceBackCalled /\ count_ = capacity_)
           => /\ phase' = "aborted"
              /\ ret'.out = "capacity_exceeded"
              /\ ret'.addr = NullAddr
              /\ pc' = "idle"
              /\ oscalls' = << >>
              /\ UNCHANGED << count_, capacity_, memory_, mem, resBase,
                              resPages, access, backed, nReserve >>
      /\ phase # "aborted"
    ]_vars

\* C3 witness: capacity 3, three elements appended, the fourth call failed.
C3_Witness ==
  /\ phase = "aborted"
  /\ ret.op = "emplace_back"
  /\ ret.out = "capacity_exceeded"
  /\ capacity_ = 3
  /\ count_ = 3
  /\ \A i \in 0 .. 2 : mem[i] # NoValue

\* C4: either overload of operator[] returns &memory_[index] exactly when
\* index < size(), and stops the process, returning nothing, exactly when
\* index >= size(); so with size() = 0 (as after Reset) index 0 is fatal.
C4_IndexBounds ==
  (ret.op \in Subscripts)
    => /\ ret.out \in {"returned", "out_of_bounds"}
       /\ (ret.out = "returned")
            <=> (ret.index < count_ /\ phase = "live")
       /\ (ret.out = "out_of_bounds")
            <=> (ret.index >= count_ /\ phase = "aborted")
       /\ (ret.out = "returned") => ret.addr = ElementAddress(ret.index)
       /\ (ret.out = "out_of_bounds") => ret.addr = NullAddr

\* C4 witness: index size()-1 has just been served while index size() is
\* still below the capacity.
C4_Witness ==
  /\ ret.op = "operator[] const"
  /\ ret.out = "returned"
  /\ ret.index = count_ - 1
  /\ count_ = 2
  /\ capacity_ = 3

\* C4, second witness state: index 0 refused after a Reset.
C4_WitnessAfterReset ==
  /\ ret.op = "operator[]"
  /\ ret.out = "out_of_bounds"
  /\ ret.index = 0
  /\ resets >= 1

\* C5: from the end of construction on, no step changes memory_ nor, while
\* the object lives, the base of the reserved range, which memory_ equals;
\* so &memory_[i] is the same before and after every step.
C5_BaseStable ==
  [][ (phase = "live")
        => /\ memory_' = memory_
           /\ \A i \in 0 .. MaxCapacity :
                ElementAddress(i)' = ElementAddress(i)
           /\ (phase' = "live" /\ memory_ # NullAddr)
                => (resBase' = resBase /\ resBase = memory_)
    ]_vars

\* C5 witness: element 0 is read at the base address after later appends
\* and a Reset.
C5_Witness ==
  /\ ret.op = "operator[]"
  /\ ret.out = "returned"
  /\ ret.index = 0
  /\ ret.addr = memory_
  /\ memory_ # NullAddr
  /\ count_ >= 2
  /\ resets >= 1

\* C6: a Reset that returns leaves the object live with size() 0 and the
\* same capacity; after it the next emplace_back takes the slot at the base
\* address and makes size() 1, an emplace_back passes its capacity check
\* whenever size() < capacity(), and one that returns has constructed its
\* element in the slot it took.
C6_UsableAfterReset ==
  [][ /\ ResetReturned
           => /\ count_' = 0
              /\ capacity_' = capacity_
              /\ phase' = "live"
              /\ pc' = "idle"
      /\ (resets >= 1 /\ EmplaceBackCalled /\ count_ < capacity_)
           => /\ pc' = "construct"
              /\ phase' = "live"
              /\ target' = ElementAddress(count_)
              /\ capacity_' = capacity_
      /\ (resets >= 1 /\ EmplaceBackCalled /\ count_ = 0 /\ capacity_ > 0)
           => /\ target' = memory_
              /\ count_' = 1
      /\ (resets >= 1 /\ pc = "construct" /\ pc' = "idle"
            /\ ret'.out = "returned")
           => /\ ret'.addr = target
              /\ ret'.val = value
              /\ ret'.index = count_ - 1
    ]_vars

\* C6 witness: after the second Reset the object has been filled to its
\* capacity again.
C6_Witness ==
  /\ resets = MaxResets
  /\ ret.op = "emplace_back"
  /\ ret.out = "returned"
  /\ capacity_ >= 2
  /\ count_ = capacity_
  /\ \A i \in 0 .. (capacity_ - 1) : mem[i] = args[i + 1]

\* The calls named `fn` among the OS calls of the latest step.
CallsOf(fn) == { k \in 1 .. Len(oscalls) : oscalls[k].fn = fn }

\* C7: with capacity > 0 the range is reserved once, by the constructor,
\* and released once, by the destructor: while the object lives the one
\* reservation stands unreleased, no emplace_back, Reset or access reserves
\* or releases, and the destructor releases by one call on the base address
\* for the whole range, with no decommit before it.
C7_ReserveOnceReleaseOnce ==
  /\ nReserve <= 1
  /\ nRelease <= 1
  /\ (CallsOf("reserve") # {}) => ret.op = "ctor"
  /\ (CallsOf("release") # {}) => ret.op = "dtor"
  /\ (phase = "live" /\ capacity_ > 0)
       => /\ nReserve = 1
          /\ nRelease = 0
          /\ resBase = memory_
          /\ resPages = PagesFor(ByteLength(capacity_))
  /\ (phase = "destroyed" /\ capacity_ > 0)
       => /\ nReserve = 1
          /\ nRelease = 1
          /\ Cardinality(CallsOf("release")) = 1
          /\ CallsOf("decommit") = {}
          /\ \A k \in CallsOf("release") :
               /\ oscalls[k].addr = memory_
               /\ oscalls[k].len \in {0, ByteLength(capacity_)}
          /\ resPages = 0
          /\ access = {}
          /\ backed = {}

\* C7 witness: an object that held elements on committed pages and went
\* through a Reset has been destroyed.
C7_Witness ==
  /\ phase = "destroyed"
  /\ capacity_ = 3
  /\ count_ >= 2
  /\ resets >= 1
  /\ nRelease = 1

\* C8: under the fault-trapped build one emplace_back is resumed by the
\* filter at most once.
C8_AtMostOneResume == resumes <= 1

\* C9: the filter resumes only a fault whose address lies in the
\* reservation and whose commit succeeded; a fault outside the reservation
\* stops the process.
C9_ResumeOnlyInsideReservation ==
  [][ (phase = "live" /\ pc = "filter")
        => /\ (pc' = "construct")
                => /\ InReservation(faultAddr)
                   /\ CommitPages \subseteq access'
           /\ (~ InReservation(faultAddr)) => phase' = "aborted"
    ]_vars

\* C10: between operations every position below size() holds a fully
\* constructed element, and no position from size() on is served.
C10_PrefixConstructed ==
  (phase = "live" /\ pc = "idle")
    => /\ \A i \in DOMAIN mem : (i < count_) => mem[i] # NoValue
       /\ \A i \in DOMAIN mem : (i >= count_) => ~ IndexCheck(i)

\* C11: a capacity whose byte length overflows size_t is refused by the
\* constructor: no reservation of the wrapped length is made, and no live
\* object has a capacity() that its reserved range cannot hold.
C11_OverflowIsFatal ==
  /\ (phase # "unconstructed" /\ sizeofT * capacity_ >= SizeMod)
       => /\ phase = "aborted"
          /\ ret.op = "ctor"
          /\ nReserve = 0
  /\ (phase = "live") => sizeofT * capacity_ <= resPages * PageSize

\* C12: an object constructed with capacity 0 is valid and empty: its
\* constructor, Reset and destructor return without any OS call, nothing
\* is ever reserved, size() and capacity() are 0, and every emplace_back
\* stops the process at the capacity assertion.
C12_ZeroCapacity ==
  (phase # "unconstructed" /\ capacity_ = 0)
    => /\ oscalls = << >>
       /\ nReserve = 0
       /\ nRelease = 0
       /\ memory_ = NullAddr
       /\ resPages = 0
       /\ access = {}
       /\ backed = {}
       /\ count_ = 0
       /\ (ret.op \in {"ctor", "Reset"})
            => (ret.out = "returned" /\ phase = "live")
       /\ (ret.op = "dtor") => (ret.out = "returned" /\ phase = "destroyed")
       /\ (ret.op = "emplace_back")
            => (ret.out = "capacity_exceeded" /\ phase = "aborted")
       /\ (ret.op \in {"size", "capacity"}) => ret.val = 0

\* C12 witness: an emplace_back on a capacity-0 object, after a Reset of
\* it, has stopped the process.
C12_Witness ==
  /\ capacity_ = 0
  /\ phase = "aborted"
  /\ ret.op = "emplace_back"
  /\ resets >= 1

\* C12, second witness state: a capacity-0 object destroyed after a Reset.
C12_WitnessDestroyed ==
  /\ capacity_ = 0
  /\ phase = "destroyed"
  /\ resets >= 1

\* C13: the constructor stores its argument in capacity_, no later step
\* changes capacity_, and capacity() returns it.
C13_CapacityConstant ==
  [][ /\ (phase = "unconstructed" /\ phase' = "live")
           => capacity_' = ret'.index
      /\ (phase = "live") => capacity_' = capacity_
      /\ (phase = "live" /\ pc = "idle" /\ ret'.op = "capacity")
           => /\ ret'.out = "returned"
              /\ ret'.val = capacity_
              /\ phase' = "live"
    ]_vars

\* C13 witness: capacity() answers 3 on an object that has been reset and
\* holds one element.
C13_Witness ==
  /\ ret.op = "capacity"
  /\ ret.val = 3
  /\ count_ = 1
  /\ resets >= 1

\* The pages under the slots [0, n).
PrefixPages(n) ==
  UNION { PagesCovering(i * sizeofT, sizeofT) : i \in 0 .. (n - 1) }

\* C14: under WINDOWS the constructor commits nothing, and in every state
\* the committed pages are among those under the slots [0, size()).
C14_LazyCommit ==
  (platform = "WINDOWS")
    => /\ access \subseteq PrefixPages(count_)
       /\ backed \subseteq access
       /\ (ret.op = "ctor") => (access = {} /\ backed = {})

\* C14 witness: one element appended into a reservation of several pages,
\* one page committed.
C14_Witness ==
  /\ platform = "WINDOWS"
  /\ capacity_ = 3
  /\ resPages >= 2
  /\ count_ = 1
  /\ ret.op = "emplace_back"
  /\ ret.out = "returned"
  /\ access = {0}

\* The elements whose construction has finished.
Completed == IF pc = "idle" THEN count_ ELSE count_ - 1

C16_ResetInvalidatesAll ==
  /\ (ret.op = "Reset" /\ ret.out = "returned" /\ memory_ # NullAddr)
       => /\ backed = {}
          /\ count_ = 0
          /\ \A i \in DOMAIN mem : mem[i] = NoValue
          /\ resBase = memory_
          /\ resPages = PagesFor(ByteLength(capacity_))
          /\ (platform = "WINDOWS")
               => /\ access = {}
                  /\ oscalls = << OsCall("decommit", memory_, 0) >>
          /\ (platform = "POSIX")
               => /\ access = AllPages
                  /\ \E k \in 1 .. Len(oscalls) :
                       oscalls[k] = OsCall("remap_fixed", memory_,
                                           ByteLength(capacity_))
  /\ (platform = "WINDOWS" /\ ret.op = "emplace_back"
        /\ ret.out = "returned" /\ count_ = 1)
       => resumes >= 1

\* C16 witness: a Reset has returned on an object whose latest emplace_back
\* had taken the second slot.
C16_Witness ==
  /\ ret.op = "Reset"
  /\ ret.out = "returned"
  /\ memory_ # NullAddr
  /\ capacity_ = 3
  /\ target = ElementAddress(1)
  /\ value # NoValue

\* C16, second witness state: under WINDOWS the first emplace_back after a
\* Reset has returned, through one commit.
C16_WitnessRecommit ==
  /\ platform = "WINDOWS"
  /\ resets >= 1
  /\ ret.op = "emplace_back"
  /\ ret.out = "returned"
  /\ count_ = 1
  /\ resumes = 1

\* C17: emplace_back first checks size() < capacity(), then advances the
\* count and takes the slot at the old count, and only then constructs:
\* the call step writes no slot, every write of a slot goes to index
\* size()-1, and when T's constructor throws the call is left with size()
\* already advanced and the slot at size()-1 holding no element.
C17_IncrementBeforeConstruct ==
  [][ /\ (EmplaceBackCalled /\ count_ < capacity_)
           => /\ count_' = count_ + 1
              /\ target' = ElementAddress(count_)
              /\ mem' = mem
              /\ pc' = "construct"
      /\ (EmplaceBackCalled /\ ~ (count_ < capacity_))
           => /\ phase' = "aborted"
              /\ count_' = count_
              /\ mem' = mem
      /\ (pc = "construct" /\ mem' # mem)
           => /\ SlotOf(target) = count_ - 1
              /\ mem' = [ mem EXCEPT ![count_ - 1] = value ]
      /\ (pc = "construct" /\ ret'.out = "threw")
           => /\ pc' = "idle"
              /\ phase' = "live"
              /\ count_' = count_
              /\ ret'.index = count_ - 1
              /\ mem'[count_ - 1] = NoValue
    ]_vars

\* C17 witness: the second emplace_back threw; size() is 2, slot 0 holds
\* its element and slot 1 holds none.
C17_Witness ==
  /\ ret.op = "emplace_back"
  /\ ret.out = "threw"
  /\ count_ = 2
  /\ mem[0] # NoValue
  /\ mem[1] = NoValue

\* C18: the container never calls T's destructor, while a Reset or a
\* destruction that returns leaves no slot holding a value and no page
\* backed.
C18_NoElementDestructors ==
  /\ dtorCalls = 0
  /\ (ret.op \in {"Reset", "dtor"} /\ ret.out = "returned")
       => /\ \A i \in DOMAIN mem : mem[i] = NoValue
          /\ backed = {}

\* C18 witness: an object destroyed while it counted three constructed
\* elements.
C18_Witness ==
  /\ platform = "WINDOWS"
  /\ phase = "destroyed"
  /\ ret.op = "dtor"
  /\ count_ = 3
  /\ dtorCalls = 0

\* C19: in the mmap build no step of emplace_back calls the OS, OS calls
\* come from the constructor, Reset and the destructor only, the filter
\* never runs, and while the object lives its whole range is readable and
\* writable.
C19_ImplicitPaging ==
  (platform = "POSIX")
    => /\ (oscalls # << >>) => ret.op \in {"ctor", "Reset", "dtor"}
       /\ (ret.op = "emplace_back") => oscalls = << >>
       /\ pc # "filter"
       /\ resumes = 0
       /\ (phase = "live" /\ memory_ # NullAddr)
            => /\ resBase = memory_
               /\ resPages = PagesFor(ByteLength(capacity_))
               /\ resPages > 0
               /\ access = AllPages

\* C19 witness: in the mmap build an object refilled to capacity 3 after a
\* Reset.
C19_Witness ==
  /\ platform = "POSIX"
  /\ ret.op = "emplace_back"
  /\ ret.out = "returned"
  /\ capacity_ = 3
  /\ count_ = 3
  /\ resets >= 1
  /\ backed = AllPages

\* C20: operator[] (both overloads), size() and capacity() leave the
\* count, the capacity, the base address, the reservation, the committed
\* and backed pages and the contents alone and call the OS for nothing;
\* under WINDOWS the element operator[] returns lies on committed pages.
C20_AccessorsReadOnly ==
  [][ (phase = "live" /\ pc = "idle"
         /\ ret'.op \in Subscripts \cup {"size", "capacity"})
        => /\ UNCHANGED << count_, capacity_, memory_, resBase, resPages,
                           access, backed, mem, nReserve, nRelease >>
           /\ oscalls' = << >>
           /\ (ret'.op = "size") => ret'.val = count_
           /\ (ret'.op \in Subscripts /\ ret'.out = "returned"
                 /\ platform = "WINDOWS")
                => PagesCovering(ret'.index * sizeofT, sizeofT)
                     \subseteq access
    ]_vars

\* C20 witness: under WINDOWS an element straddling two pages has been
\* accessed.
C20_Witness ==
  /\ platform = "WINDOWS"
  /\ sizeofT = 3
  /\ ret.op = "operator[]"
  /\ ret.out = "returned"
  /\ ret.index = 1
  /\ count_ = 2
  /\ access = {0, 1}

====
